---- MODULE Spec2Model ----
(***************************************************************************)
(* Model of the playback core of the beat sequencer: the AudioEngine of    *)
(* src/src/types/index.ts (lines 79-248) driving the shared Tone.js        *)
(* transport.  The engine's public methods are the actions; the transport  *)
(* is the pair (transportState, bpm) plus the timeline of scheduled        *)
(* events, and each synth is a record in the engine's synths map.          *)
(***************************************************************************)
EXTENDS Integers, Sequences, FiniteSets, TLC

\* ------------------------------------------------------------------ bounds
MaxCalls == 3         \* number of calls of the engine's methods explored
MaxDirectCalls == 2   \* createInstrument/scheduleTrack are among the first calls
MaxUiCalls == 4       \* number of handler calls of the user interface explored
MaxPending == 2       \* handlePlay calls waiting for initAudio() at a time

\* ------------------------------------------------------------------ inputs
TrackIds == {1, 2}

NoSynth == [uid |-> 0]

\* the instrument kinds createInstrument is called with
InstrumentTypes == {"drums", "piano"}

\* tempos handed to play()/setTempo(): inside 60..200 and outside it
Tempos == {120, 250}

\* the tempos given to setTempo
TempoChanges == {60, 250}

\* the notes each track carries (Note: id, pitch, octave, duration,
\* position in beats, velocity in percent)
NotesOf(t) ==
  IF t = 1
  THEN << [id |-> 11, pitch |-> "C", octave |-> 4, duration |-> "quarter",
           position |-> 0, velocity |-> 80],
          [id |-> 12, pitch |-> "E", octave |-> 4, duration |-> "eighth",
           position |-> 4, velocity |-> 60] >>
  ELSE << [id |-> 21, pitch |-> "G", octave |-> 3, duration |-> "whole",
           position |-> 1, velocity |-> 100] >>

\* the instrument kind and the volume (percent) each track carries
KindOf(t) == IF t = 1 THEN "piano" ELSE "drums"

VolumeOf(t) == IF t = 1 THEN 100 ELSE 50

\* the Track records of track id t: muted or not; solo or not for track 1
TrackChoices(t) ==
  { [id |-> t, instrumentType |-> KindOf(t), volume |-> VolumeOf(t),
     muted |-> m, solo |-> s, notes |-> NotesOf(t)] :
       m \in BOOLEAN, s \in IF t = 1 THEN BOOLEAN ELSE {FALSE} }

\* track lists handed to play(): the empty list, one track, two tracks
TrackLists ==
  { <<>> }
    \cup { <<a>> : a \in TrackChoices(1) \cup TrackChoices(2) }
    \cup { <<a, b>> : a \in TrackChoices(1), b \in TrackChoices(2) }

\* the ids of the notes of a track
NoteIds(track) == { track.notes[i].id : i \in 1..Len(track.notes) }

\* the track whose voice-group cannot be constructed during a call; 0: none
Failing == {0} \cup TrackIds

\* ------------------------------------------------------------------- state
VARIABLES
  synths,          \* AudioEngine.synths: track id -> voice-group or NoSynth
  disposed,        \* uids of voice-groups on which dispose() was called
  live,            \* the voice-groups constructed and not disposed: uid, track
  sounding,        \* uids of the voice-groups with a note sounding
  isPlaying,       \* AudioEngine.isPlaying
  transportState,  \* Tone.getTransport().state: "stopped" | "started"
  bpm,             \* Tone.getTransport().bpm.value
  events,          \* the transport timeline: scheduled triggers
  fired,           \* ids of the events fired since the transport started
  nextEvent,       \* id the transport gives the next scheduled event
  nextSynth,       \* uid of the next constructed voice-group
  session,         \* number of play() calls so far
  calls,           \* number of method calls so far
  snapshot,        \* the track list of the most recent play()
  playTempo,       \* the tempo of the most recent play()
  restart,         \* TRUE if the most recent play() found the clock running
  lastOp,          \* the operation that produced this state
  outcome,         \* "ok" | "aborted": how that operation ended
  failedTrack,     \* the track whose voice-group creation failed, or 0
  stale,           \* ids of events that were registered when a stop() ran
  hushed,          \* uids that were sounding when the most recent stop() ran
  idle,            \* TRUE if the most recent stop() followed a stop()
  ghost,           \* TRUE once an event in stale has fired
  retimed,         \* ids of the events registered when the most recent
                   \* play() assigned the tempo
  project,         \* ProjectContext's project: tracks, tempo, ids handed out
  uiPlaying,       \* App's isPlaying state
  pending,         \* the handlePlay calls waiting at `await initAudio()`
  raced,           \* TRUE if the latest handlePlay resumed on an older project
  initialized,     \* App's isInitialized state
  newNote,         \* App's newNote state: the position field of the form
  currentTrack,    \* ProjectContext's currentTrack: a track, or NoTrack
  draggedTrackId,  \* MultiTrackTimeline's draggedTrackId, or 0 for null
  dragOverTrackId, \* MultiTrackTimeline's dragOverTrackId, or 0 for null
  isEditing,       \* TrackHeader's isEditing, of the header of the first track
  editValue,       \* TrackHeader's editValue: the text of the name field
  nameError,       \* TrackHeader's nameError: a message, or "null"
  calc             \* the latest application of a pure function

vars == << synths, disposed, live, sounding, isPlaying, transportState, bpm,
           events, fired, nextEvent, nextSynth, session, calls, snapshot,
           playTempo, restart, lastOp, outcome, failedTrack, stale, hushed,
           idle, ghost, retimed, project, uiPlaying, pending, raced,
           initialized, newNote, currentTrack, draggedTrackId,
           dragOverTrackId, isEditing, editValue, nameError, calc >>

\* the state of the track drag of MultiTrackTimeline
dragVars == << draggedTrackId, dragOverTrackId >>

\* the state of a TrackHeader
headerVars == << isEditing, editValue, nameError >>

\* the state of the components that show the tracks
viewVars == << dragVars, headerVars >>

\* the state of the user interface, and the state outside the engine
uiVars == << project, uiPlaying, pending, raced, initialized, newNote,
             currentTrack, viewVars >>

outerVars == << uiVars, calc >>

\* ---------------------------------------------------------- pure functions
RECURSIVE GCD(_, _)
GCD(a, b) == IF b = 0 THEN a ELSE GCD(b, a % b)

\* a rational number of seconds, in lowest terms
Rat(n, d) == << n \div GCD(n, d), d \div GCD(n, d) >>

\* a wrong conversion: the duration class is ignored
DurationIgnoringClass(duration, tempo) == Rat(60, tempo)

\* getDurationInSeconds(duration, bpm)
getDurationInSeconds(duration, tempo) ==
  CASE duration = "whole"     -> Rat(60 * 4, tempo)
    [] duration = "half"      -> Rat(60 * 2, tempo)
    [] duration = "quarter"   -> Rat(60, tempo)
    [] duration = "eighth"    -> Rat(60, tempo * 2)
    [] duration = "sixteenth" -> Rat(60, tempo * 4)

\* the transport time `0:${note.position}:0` (bars:quarters:sixteenths)
TransportTime(position) ==
  [bars |-> 0, quarters |-> position, sixteenths |-> 0]

\* a switch that builds the drums' voice for every kind
PresetFirstCase(instrumentType) ==
  [voice |-> "MembraneSynth", oscillator |-> "default"]

\* the preset createInstrument's switch selects
Preset(instrumentType) ==
  CASE instrumentType = "drums"  -> [voice |-> "MembraneSynth", oscillator |-> "default"]
    [] instrumentType = "bass"   -> [voice |-> "MonoSynth", oscillator |-> "sawtooth"]
    [] instrumentType = "synth"  -> [voice |-> "Synth", oscillator |-> "square"]
    [] instrumentType = "piano"  -> [voice |-> "Synth", oscillator |-> "triangle"]
    [] instrumentType = "guitar" -> [voice |-> "Synth", oscillator |-> "triangle"]
    [] instrumentType = "pad"    -> [voice |-> "Synth", oscillator |-> "sine"]
    [] OTHER                     -> [voice |-> "Synth", oscillator |-> "default"]

\* Tone.gainToDb(gain) = 20*log10(gain), gain in percent, result in
\* hundredths of a decibel; a gain of 0 is minus infinity, written here as
\* the integer -(10^9)
GainToDb(gain) ==
  CASE gain = 0   -> -(10 ^ 9)
    [] gain = 50  -> -602
    [] gain = 70  -> -310
    [] gain = 100 -> 0

\* ------------------------------------------------- the engine's operations
\* The methods below are written over a record st of the fields a method
\* call can change, so that play() can chain them as the code does:
\*   st.synths, st.disposed, st.live, st.sounding, st.events, st.nextEvent,
\*   st.nextSynth, st.ok (FALSE once an exception is propagating), st.failed.

HasSynth(st, trackId) == st.synths[trackId] # NoSynth

\* position of a transport time on the timeline, in sixteenths
TimeKey(tt) == (tt.bars * 4 + tt.quarters) * 4 + tt.sixteenths

\* a stop() that toggles the transport
TransportToggle(state) == IF state = "started" THEN "stopped" ELSE "started"

\* Tone.getTransport().stop(): the state of the transport afterwards
TransportStop(state) == "stopped"

\* a setTempo that re-times the scheduled notes as beats of the new tempo
RetimeDurations(evs, tempo) ==
  { [e EXCEPT !.duration = Rat(60, tempo)] : e \in evs }

\* the timeline after setTempo(bpm): only bpm.value is assigned
TimelineAfterSetTempo(evs, tempo) == evs

\* a cancel() that leaves the timeline alone
TransportCancelNothing(evs) == evs

\* Tone.getTransport().cancel(): every scheduled event is removed
TransportCancel(evs) == {}

\* the registered voice-group of a track, as an element of st.live
Registered(st, trackId) ==
  [uid |-> st.synths[trackId].uid, track |-> trackId]

\* a createInstrument that does not dispose the voice-group it replaces
KeepExisting(st, trackId) == st

\* existing.dispose() of createInstrument: the voice-group of the track, if
\* there is one, is disposed; its notes end with it
DisposeExisting(st, trackId) ==
  IF HasSynth(st, trackId)
  THEN [st EXCEPT !.disposed = st.disposed \cup {st.synths[trackId].uid},
                  !.live = st.live \ {Registered(st, trackId)},
                  !.sounding = st.sounding \ {st.synths[trackId].uid}]
  ELSE st

\* createInstrument(trackId, instrumentType); fails = the PolySynth
\* constructor throws
createInstrument(st, trackId, instrumentType, fails) ==
  LET st1 == DisposeExisting(st, trackId)
  IN IF fails
     THEN [st1 EXCEPT !.ok = FALSE, !.failed = trackId]
     ELSE [st1 EXCEPT !.synths[trackId] =
                         [uid |-> st.nextSynth, kind |-> instrumentType,
                          preset |-> Preset(instrumentType), db |-> 0],
                      !.live = st1.live \cup
                                 {[uid |-> st.nextSynth, track |-> trackId]},
                      !.nextSynth = st.nextSynth + 1]

\* setTrackVolume(trackId, volume)
setTrackVolume(st, trackId, volume) ==
  IF HasSynth(st, trackId)
  THEN [st EXCEPT !.synths[trackId].db = GainToDb(volume)]
  ELSE st

\* the event Transport.schedule registers for one note of a track
TriggerFor(st, track, i, tempo, sess) ==
  LET note == track.notes[i]
  IN [id |-> st.nextEvent + i - 1,
      session |-> sess,
      track |-> track.id,
      note |-> note.id,
      synth |-> st.synths[track.id].uid,
      noteName |-> << note.pitch, note.octave >>,
      time |-> TransportTime(note.position),
      duration |-> getDurationInSeconds(note.duration, tempo),
      velocity |-> note.velocity]

\* a gain that ignores the muted flag
GainIgnoringMute(track) == track.volume

\* the gain scheduleTrack applies: track.muted ? 0 : track.volume
EffectiveGain(track) == IF track.muted THEN 0 ELSE track.volume

\* scheduleTrack(track), with the transport's bpm at the time of the call
scheduleTrack(st, track, fails, tempo, sess) ==
  LET st1 == IF ~HasSynth(st, track.id)
             THEN createInstrument(st, track.id, track.instrumentType, fails)
             ELSE st
      st2 == setTrackVolume(st1, track.id, EffectiveGain(track))
  IN IF ~st1.ok THEN st1
     ELSE IF ~HasSynth(st2, track.id) THEN st2
     ELSE [st2 EXCEPT
             !.events = st2.events \cup
                { TriggerFor(st2, track, i, tempo, sess) :
                    i \in 1..Len(track.notes) },
             !.nextEvent = st2.nextEvent + Len(track.notes)]

\* a play() loop that schedules muted tracks too
ScheduleEveryTrack(track) == TRUE

\* the test of play()'s loop: is this track scheduled
ShouldSchedule(track) == ~track.muted

\* tracks.forEach(track => { if (!track.muted) this.scheduleTrack(track) }):
\* an exception leaves the loop and the method
RECURSIVE ScheduleAll(_, _, _, _, _, _)
ScheduleAll(st, tracks, i, failing, tempo, sess) ==
  IF i > Len(tracks) \/ ~st.ok THEN st
  ELSE ScheduleAll(
         IF ShouldSchedule(tracks[i])
         THEN scheduleTrack(st, tracks[i], tracks[i].id = failing, tempo, sess)
         ELSE st,
         tracks, i + 1, failing, tempo, sess)

\* the engine fields as a record, and the record a stop() leaves
Engine ==
  [synths |-> synths, disposed |-> disposed, live |-> live,
   sounding |-> sounding, events |-> events, nextEvent |-> nextEvent,
   nextSynth |-> nextSynth, ok |-> TRUE, failed |-> 0]

\* the uids of the voice-groups in the synths map
RegisteredUids(registry) ==
  { registry[t].uid : t \in { u \in TrackIds : registry[u] # NoSynth } }

\* a stop() that releases no voice
ReleaseNone(snd, registry) == snd

\* this.synths.forEach(synth => synth.releaseAll()): the voice-groups still
\* sounding afterwards
ReleaseAll(snd, registry) == snd \ RegisteredUids(registry)

\* the effect of stop() on the timeline: stop(), cancel(), releaseAll()
StopEngine(st) ==
  [st EXCEPT !.events = TransportCancel(st.events),
             !.sounding = ReleaseAll(st.sounding, st.synths)]

\* synth.triggerAttackRelease(...): a note starts on the voice-group, unless
\* it has been disposed
Attack(snd, uid, gone) == IF uid \in gone THEN snd ELSE snd \cup {uid}

\* a play() that does not tear the running session down
NoTeardown(st) == st

\* play()'s call of this.stop() before it schedules
PlayTeardown(st) == StopEngine(st)

\* a play() that reports playing however it ended
FlagAlways(ok) == TRUE

\* isPlaying after play(): line 218 is reached only without an exception
FlagAfterPlay(ok) == ok

\* ----------------------------------------------------------------- actions
EngineInit ==
  /\ synths = [t \in TrackIds |-> NoSynth]
  /\ disposed = {}
  /\ live = {}
  /\ sounding = {}
  /\ isPlaying = FALSE
  /\ transportState = "stopped"
  /\ bpm = 120
  /\ events = {}
  /\ fired = {}
  /\ nextEvent = 1
  /\ nextSynth = 1
  /\ session = 0
  /\ calls = 0
  /\ snapshot = << >>
  /\ playTempo = 0
  /\ restart = FALSE
  /\ lastOp = "init"
  /\ outcome = "ok"
  /\ failedTrack = 0
  /\ stale = {}
  /\ hushed = {}
  /\ idle = FALSE
  /\ ghost = FALSE
  /\ retimed = {}

\* null, where a track is expected: currentTrack?.id is no track's id
NoTrack == [id |-> 0]

\* the text an empty name field holds
EmptyText == << >>

\* no track is selected or dragged, and no name is being edited
ViewInit ==
  /\ currentTrack = NoTrack
  /\ draggedTrackId = 0
  /\ dragOverTrackId = 0
  /\ isEditing = FALSE
  /\ editValue = EmptyText
  /\ nameError = "null"

\* the engine after its construction, under the project createProject makes
Init ==
  /\ EngineInit
  /\ project = [tracks |-> << >>, tempo |-> 120, made |-> {}]
  /\ uiPlaying = FALSE
  /\ pending = << >>
  /\ raced = FALSE
  /\ initialized = FALSE
  /\ newNote = [position |-> 0]
  /\ ViewInit
  /\ calc = [op |-> "none"]

EventIds(evs) == { e.id : e \in evs }

\* play(tracks, tempo); failing = the track whose voice-group cannot be
\* constructed during this call
DoPlay(before, tracks, tempo, failing) ==
  \E st \in { ScheduleAll(PlayTeardown(before), tracks, 1, failing, tempo,
                          session + 1) } :
     /\ bpm' = tempo
     /\ retimed' = EventIds(TimelineAfterSetTempo(events, tempo))
     /\ stale' = stale \cup EventIds(events)
     /\ fired' = {}
     /\ hushed' = sounding
     /\ synths' = st.synths
     /\ disposed' = st.disposed
     /\ live' = st.live
     /\ sounding' = st.sounding
     /\ events' = st.events
     /\ nextEvent' = st.nextEvent
     /\ nextSynth' = st.nextSynth
     /\ transportState' = IF st.ok THEN "started"
                                    ELSE TransportStop(transportState)
     /\ isPlaying' = FlagAfterPlay(st.ok)
     /\ session' = session + 1
     /\ snapshot' = tracks
     /\ playTempo' = tempo
     /\ restart' = (transportState = "started")
     /\ lastOp' = "play"
     /\ outcome' = IF st.ok THEN "ok" ELSE "aborted"
     /\ failedTrack' = st.failed
     /\ UNCHANGED << idle, ghost >>

Play(tracks, tempo, failing) ==
  /\ calls < MaxCalls
  /\ calls' = calls + 1
  /\ DoPlay(Engine, tracks, tempo, failing)
  /\ UNCHANGED outerVars

\* stop(): its effect on the engine
DoStop ==
  \E st \in { StopEngine(Engine) } :
     /\ transportState' = TransportStop(transportState)
     /\ events' = st.events
     /\ stale' = stale \cup EventIds(events)
     /\ fired' = {}
     /\ isPlaying' = FALSE
     /\ sounding' = st.sounding
     /\ hushed' = sounding
     /\ idle' = (lastOp = "stop")
     /\ lastOp' = "stop"
     /\ outcome' = "ok"
     /\ failedTrack' = 0
     /\ UNCHANGED << synths, disposed, live, bpm, nextEvent, nextSynth,
                     session, snapshot, playTempo, restart, ghost, retimed >>

\* stop()
Stop ==
  /\ calls < MaxCalls
  /\ calls' = calls + 1
  /\ DoStop
  /\ UNCHANGED outerVars

\* setTempo(bpm): its effect on the engine
DoSetTempo(tempo) ==
  /\ bpm' = tempo
  /\ events' = TimelineAfterSetTempo(events, tempo)
  /\ lastOp' = "setTempo"
  /\ outcome' = "ok"
  /\ failedTrack' = 0
  /\ UNCHANGED << synths, disposed, live, sounding, isPlaying, transportState,
                  fired, nextEvent, nextSynth, session, snapshot, playTempo,
                  restart, stale, hushed, idle, ghost, retimed >>

\* setTempo(bpm)
SetTempo(tempo) ==
  /\ calls < MaxCalls
  /\ calls' = calls + 1
  /\ DoSetTempo(tempo)
  /\ UNCHANGED outerVars

\* createInstrument(trackId, instrumentType) called by the engine's user
CreateInstrument(trackId, instrumentType, fails) ==
  \E st \in { createInstrument(Engine, trackId, instrumentType, fails) } :
     /\ calls < MaxCalls
     /\ calls < MaxDirectCalls
     /\ calls' = calls + 1
     /\ synths' = st.synths
     /\ disposed' = st.disposed
     /\ live' = st.live
     /\ sounding' = st.sounding
     /\ nextSynth' = st.nextSynth
     /\ lastOp' = "createInstrument"
     /\ outcome' = IF st.ok THEN "ok" ELSE "aborted"
     /\ failedTrack' = st.failed
     /\ UNCHANGED << isPlaying, transportState, bpm, events, fired, nextEvent,
                     session, snapshot, playTempo, restart, stale, hushed,
                     idle, ghost, retimed >>
     /\ UNCHANGED outerVars

\* scheduleTrack(track) called by the engine's user
ScheduleTrack(track, fails) ==
  \E st \in { scheduleTrack(Engine, track, fails, bpm, session) } :
     /\ calls < MaxCalls
     /\ calls < MaxDirectCalls
     /\ calls' = calls + 1
     /\ synths' = st.synths
     /\ disposed' = st.disposed
     /\ live' = st.live
     /\ sounding' = st.sounding
     /\ events' = st.events
     /\ nextEvent' = st.nextEvent
     /\ nextSynth' = st.nextSynth
     /\ lastOp' = "scheduleTrack"
     /\ outcome' = IF st.ok THEN "ok" ELSE "aborted"
     /\ failedTrack' = st.failed
     /\ UNCHANGED << isPlaying, transportState, bpm, fired, session, snapshot,
                     playTempo, restart, stale, hushed, idle, ghost, retimed >>
     /\ UNCHANGED outerVars

\* a dispose() that leaves the registry as it is
KeepRegistry(registry) == registry

\* this.synths.clear()
ClearRegistry(registry) == [t \in TrackIds |-> NoSynth]

\* dispose(): stop(), every registered voice-group disposed, the registry
\* cleared
Dispose ==
  \E st \in { StopEngine(Engine) } :
     /\ calls < MaxCalls
     /\ calls' = calls + 1
     /\ transportState' = TransportStop(transportState)
     /\ events' = st.events
     /\ stale' = stale \cup EventIds(events)
     /\ fired' = {}
     /\ isPlaying' = FALSE
     /\ disposed' = disposed \cup RegisteredUids(synths)
     /\ live' = { l \in live : l.uid \notin RegisteredUids(synths) }
     /\ sounding' = st.sounding
     /\ hushed' = sounding
     /\ synths' = ClearRegistry(synths)
     /\ lastOp' = "dispose"
     /\ outcome' = "ok"
     /\ failedTrack' = 0
     /\ UNCHANGED << bpm, nextEvent, nextSynth, session, snapshot, playTempo,
                     restart, idle, ghost, retimed >>
     /\ UNCHANGED outerVars

\* a transport that stops once the last scheduled event has been called
StopWhenDone(state, evs, done) ==
  IF \A e \in evs : e.id \in done THEN "stopped" ELSE state

\* the transport after it has called an event: no loop, no end and no stop
\* is scheduled on it, it runs on
ClockAfterEvent(state, evs, done) == state

\* the running transport reaches the time of a scheduled event and calls it
Fire(e) ==
  /\ transportState = "started"
  /\ e \in events
  /\ e.id \notin fired
  /\ \A o \in events : o.id \notin fired => TimeKey(e.time) <= TimeKey(o.time)
  /\ fired' = fired \cup {e.id}
  /\ transportState' = ClockAfterEvent(transportState, events,
                                       fired \cup {e.id})
  /\ ghost' = (ghost \/ e.id \in stale)
  /\ sounding' = Attack(sounding, e.synth, disposed)
  /\ UNCHANGED << synths, disposed, live, isPlaying, bpm,
                  events, nextEvent, nextSynth, session, calls, snapshot,
                  playTempo, restart, lastOp, outcome, failedTrack, stale,
                  hushed, idle, retimed >>
  /\ UNCHANGED outerVars

\* playNote(trackId, pitch, octave, duration, velocity) called by the
\* engine's user: a note starts at once on the track's voice-group
PlayNote(trackId) ==
  /\ calls < MaxCalls
  /\ calls < MaxDirectCalls
  /\ calls' = calls + 1
  /\ sounding' = IF synths[trackId] # NoSynth
                 THEN Attack(sounding, synths[trackId].uid, disposed)
                 ELSE sounding
  /\ lastOp' = "playNote"
  /\ outcome' = "ok"
  /\ failedTrack' = 0
  /\ UNCHANGED << synths, disposed, live, isPlaying, transportState, bpm,
                  events, fired, nextEvent, nextSynth, session, snapshot,
                  playTempo, restart, stale, hushed, idle, ghost, retimed >>
  /\ UNCHANGED outerVars

\* the tracks for which a play(tracks, tempo) constructs a voice-group, and
\* 0: a failure can only be the failure of one of these constructions
FailingIn(tracks) ==
  { f \in Failing :
      \/ f = 0
      \/ \E i \in 1..Len(tracks) :
            /\ tracks[i].id = f
            /\ ShouldSchedule(tracks[i])
            /\ synths[f] = NoSynth }

Next ==
  \/ \E tracks \in TrackLists, tempo \in Tempos :
        \E failing \in FailingIn(tracks) : Play(tracks, tempo, failing)
  \/ Stop
  \/ \E tempo \in TempoChanges : SetTempo(tempo)
  \/ Dispose
  \/ \E e \in events : Fire(e)

Spec == Init /\ [][Next]_vars

\* the engine with its other public methods called directly
NextDirect ==
  \/ Next
  \/ \E t \in TrackIds, k \in InstrumentTypes, fails \in BOOLEAN :
        CreateInstrument(t, k, fails)
  \/ \E t \in TrackIds :
        \E fails \in IF synths[t] = NoSynth THEN BOOLEAN ELSE {FALSE} :
          \E track \in TrackChoices(t) : ScheduleTrack(track, fails)
  \/ \E t \in TrackIds : PlayNote(t)

SpecDirect == Init /\ [][NextDirect]_vars

\* --- createInstrument over every instrument kind
\* InstrumentType: the six kinds of createInstrument's switch
KnownKinds == {"drums", "bass", "synth", "piano", "guitar", "pad"}

\* a kind outside InstrumentType, as untyped project data can carry
UnknownKinds == {"organ"}

NextKinds ==
  \E t \in TrackIds, k \in KnownKinds \cup UnknownKinds, fails \in BOOLEAN :
     CreateInstrument(t, k, fails)

SpecKinds == Init /\ [][NextKinds]_vars

\* ------------------------------------------- the pure functions on their own
\* the tempo range of the tempo slider
MinTempo == 60

MaxTempo == 200

\* NoteDuration
DurationClasses == {"whole", "half", "quarter", "eighth", "sixteenth"}

engineState ==
  << synths, disposed, live, sounding, isPlaying, transportState, bpm, events,
     fired, nextEvent, nextSynth, session, calls, snapshot, playTempo, restart,
     lastOp, outcome, failedTrack, stale, hushed, idle, ghost, retimed >>

\* getDurationInSeconds(duration, tempo) is called once, and for comparison
\* the same class one BPM faster and the whole and quarter notes of that tempo
GetDuration(duration, tempo) ==
  /\ calc.op = "none"
  /\ calc' = [op |-> "getDurationInSeconds",
              duration |-> duration,
              tempo |-> tempo,
              seconds |-> getDurationInSeconds(duration, tempo),
              faster |-> getDurationInSeconds(duration, tempo + 1),
              whole |-> getDurationInSeconds("whole", tempo),
              quarter |-> getDurationInSeconds("quarter", tempo)]
  /\ UNCHANGED << engineState, uiVars >>

NextDuration ==
  \E duration \in DurationClasses, tempo \in MinTempo..MaxTempo :
     GetDuration(duration, tempo)

SpecDuration == Init /\ [][NextDuration]_vars

\* --- the transport time of a note, as text
\* A position is a decimal number: 0.d1...dk * 10^n with d1 and dk not 0
\* (the digits a JavaScript number prints); zero has no digit.
Zero == [digits |-> << >>, n |-> 0]

\* positions a note can carry: 1, 5, 25 and 125 scaled by powers of ten
\* (0.25, 0.5, 1, 1.25, 5, 12.5, ... down to 1e-7 and up to 1e21), and 0
Positions ==
  {Zero} \cup
    { [digits |-> d, n |-> n] :
        d \in { << 1 >>, << 5 >>, << 2, 5 >>, << 1, 2, 5 >> },
        n \in (0 - 7)..22 }

DigitChars == << "0", "1", "2", "3", "4", "5", "6", "7", "8", "9" >>

Digits == { DigitChars[i] : i \in 1..10 }

DigitValue(c) == CHOOSE d \in 0..9 : DigitChars[d + 1] = c

Chars(ds) == [i \in 1..Len(ds) |-> DigitChars[ds[i] + 1]]

Zeros(k) == [i \in 1..k |-> "0"]

RECURSIVE NatToString(_)
NatToString(k) ==
  IF k < 10 THEN << DigitChars[k + 1] >>
  ELSE NatToString(k \div 10) \o << DigitChars[(k % 10) + 1] >>

\* String(x) of a JavaScript number, as the template literal applies it:
\* plain digits for 1e-6 <= x < 1e21, exponent notation outside
NumberToString(x) ==
  LET k  == Len(x.digits)
      n  == x.n
      cs == Chars(x.digits)
      e  == n - 1
      ex == << "e", IF e < 0 THEN "-" ELSE "+" >>
              \o NatToString(IF e < 0 THEN 0 - e ELSE e)
  IN IF k = 0 THEN << "0" >>
     ELSE IF k <= n /\ n <= 21 THEN cs \o Zeros(n - k)
     ELSE IF 0 < n /\ n <= 21
          THEN SubSeq(cs, 1, n) \o << "." >> \o SubSeq(cs, n + 1, k)
     ELSE IF 0 - 6 < n /\ n <= 0 THEN << "0", "." >> \o Zeros(0 - n) \o cs
     ELSE IF k = 1 THEN cs \o ex
     ELSE << cs[1], "." >> \o SubSeq(cs, 2, k) \o ex

\* `0:${note.position}:0`
TransportText(position) ==
  << "0", ":" >> \o NumberToString(position) \o << ":", "0" >>

\* text.split(sep)
RECURSIVE Split(_, _)
Split(text, sep) ==
  IF \A i \in 1..Len(text) : text[i] # sep THEN << text >>
  ELSE LET i == CHOOSE j \in 1..Len(text) :
                  text[j] = sep /\ \A m \in 1..(j - 1) : text[m] # sep
       IN << SubSeq(text, 1, i - 1) >>
            \o Split(SubSeq(text, i + 1, Len(text)), sep)

\* \d+
IsDigits(cs) == Len(cs) > 0 /\ \A i \in 1..Len(cs) : cs[i] \in Digits

\* \d+(?:\.\d+)?
IsDecimal(cs) ==
  LET parts == Split(cs, ".")
  IN Len(parts) \in {1, 2} /\ \A i \in 1..Len(parts) : IsDigits(parts[i])

\* the transport's bars:quarters:sixteenths notation:
\* ^(\d+(?:\.\d+)?):(\d+(?:\.\d+)?):?(\d+(?:\.\d+)?)?$
IsTransportNotation(text) ==
  LET f == Split(text, ":")
  IN /\ Len(f) \in {2, 3}
     /\ IsDecimal(f[1]) /\ IsDecimal(f[2])
     /\ Len(f) = 3 => (f[3] = << >> \/ IsDecimal(f[3]))

\* a decimal number from its digits and the place of its point
RECURSIVE Normalise(_, _)
Normalise(ds, n) ==
  IF ds = << >> THEN Zero
  ELSE IF Head(ds) = 0 THEN Normalise(Tail(ds), n - 1)
  ELSE IF ds[Len(ds)] = 0 THEN Normalise(SubSeq(ds, 1, Len(ds) - 1), n)
  ELSE [digits |-> ds, n |-> n]

\* parseFloat of a text matching \d+(?:\.\d+)?
DecimalValue(cs) ==
  LET parts == Split(cs, ".")
      all   == IF Len(parts) = 2 THEN parts[1] \o parts[2] ELSE parts[1]
  IN Normalise([i \in 1..Len(all) |-> DigitValue(all[i])], Len(parts[1]))

\* parseFloat of any text: the value of its longest numeric prefix, here the
\* digits before the first character that is not one
LeadingDigits(text) ==
  LET stop == { i \in 1..Len(text) : text[i] \notin Digits }
      end  == IF stop = {} THEN Len(text)
              ELSE (CHOOSE i \in stop : \A j \in stop : i <= j) - 1
  IN SubSeq(text, 1, end)

\* the time the transport reads from a text: the three fields of the
\* notation, or else the number parseFloat finds
ReadTransportTime(text) ==
  LET f == Split(text, ":")
  IN IF IsTransportNotation(text)
     THEN [form |-> "bars:quarters:sixteenths",
           bars |-> DecimalValue(f[1]),
           quarters |-> DecimalValue(f[2]),
           sixteenths |-> IF Len(f) = 3 /\ f[3] # << >>
                          THEN DecimalValue(f[3]) ELSE Zero]
     ELSE [form |-> "number",
           bars |-> Zero,
           quarters |-> IF LeadingDigits(text) = << >> THEN Zero
                        ELSE DecimalValue(LeadingDigits(text)),
           sixteenths |-> Zero]

\* a note's transport time is written and handed to Transport.schedule, once
ScheduleAt(position) ==
  /\ calc.op = "none"
  /\ calc' = [op |-> "schedule",
              position |-> position,
              text |-> TransportText(position),
              time |-> ReadTransportTime(TransportText(position))]
  /\ UNCHANGED << engineState, uiVars >>

NextTime == \E position \in Positions : ScheduleAt(position)

SpecTime == Init /\ [][NextTime]_vars

\* ------------------------------------------------- reads of the analyser
\* new Tone.Analyser('waveform', 2048): the length of the buffer
BufferSize == 2048

\* an analyser whose buffer holds signal whatever has sounded
SamplesAlwaysSignal(snd) == "signal"

\* this.analyser.getValue(): the waveform of what the destination puts out,
\* all zeros while no voice-group has a note sounding
AnalyserSamples(snd) == IF snd = {} THEN "zeros" ELSE "signal"

\* getAnalyserData(): the Float32Array of the analyser
getAnalyserData(snd) ==
  [length |-> BufferSize, samples |-> AnalyserSamples(snd)]

\* a visualizer calls getAnalyserData(); plays counts the play() calls before
Read ==
  /\ calc' = [op |-> "getAnalyserData",
              data |-> getAnalyserData(sounding),
              plays |-> session]
  /\ UNCHANGED << engineState, uiVars >>

\* the engine driven by play, stop and setTempo, read at any time
NextRead ==
  \/ \E tracks \in TrackLists, tempo \in Tempos :
        \E failing \in FailingIn(tracks) : Play(tracks, tempo, failing)
  \/ Stop
  \/ \E tempo \in TempoChanges : SetTempo(tempo)
  \/ \E e \in events : Fire(e)
  \/ Read

SpecRead == Init /\ [][NextRead]_vars

\* ----------------------------------------------- the draws of a visualizer
\* WaveformVisualizer and BarsVisualizer read the analyser and scale each
\* sample to the canvas.  A sample and a length on the canvas are counted in
\* thousandths: 1000 is the sample 1.0, and one pixel.

SampleUnit == 1000

\* new Tone.Analyser('waveform', 2048) read into a Float32Array: the samples
\* of the signal, from -1 to 1
ProducedRange == [min |-> 0 - SampleUnit, max |-> SampleUnit]

\* data[i] of getAnalyserData(): zero while nothing sounds, and else a sample
\* of the signal, of which the ends and the middle of the range are taken
SampleValues(snd) ==
  IF AnalyserSamples(snd) = "zeros" THEN {0}
  ELSE { ProducedRange.min, 0, ProducedRange.max }

\* style={{ height: '200px' }}: canvas.height after handleResize
CanvasHeight == 200

Visualizers == { "waveform", "bars" }

\* WaveformVisualizer: v = data[i] / 128.0; y = (v * height) / 2
\* BarsVisualizer: value = data[i * step] / 255; barHeight = value * height
Scaled(visualizer, sample, height) ==
  IF visualizer = "waveform"
  THEN (sample * height) \div (128 * 2)
  ELSE (sample * height) \div 255

\* the samples the scaling of a visualizer spreads over the canvas: the one
\* drawn at 0 and the one drawn at the height
AssumedRange(visualizer) ==
  [min |-> 0,
   max |-> IF visualizer = "waveform" THEN 128 * 2 * SampleUnit
           ELSE 255 * SampleUnit]

\* draw() of a visualizer, for one sample of the buffer
Draw(visualizer) ==
  \E sample \in SampleValues(sounding) :
     /\ calc' = [op |-> "draw",
                 visualizer |-> visualizer,
                 sample |-> sample,
                 y |-> Scaled(visualizer, sample, CanvasHeight),
                 height |-> CanvasHeight * SampleUnit]
     /\ UNCHANGED << engineState, uiVars >>

\* the engine driven by play and stop, drawn at any time
NextDraw ==
  \/ \E tracks \in TrackLists, tempo \in Tempos :
        \E failing \in FailingIn(tracks) : Play(tracks, tempo, failing)
  \/ Stop
  \/ \E e \in events : Fire(e)
  \/ \E visualizer \in Visualizers : Draw(visualizer)

SpecDraw == Init /\ [][NextDraw]_vars

\* ------------------------------------------------------- the user interface
\* App and ProjectContext around the engine: the project state, the play,
\* stop and tempo handlers, and the edits of tracks and notes.

\* values of the tempo slider and of a volume slider
SliderTempos == {60, 200}

VolumeChoices == {50, 100}

\* a track as the editor has made it: unmuted, not solo
EditedTrack(t) ==
  [id |-> t, instrumentType |-> KindOf(t), volume |-> VolumeOf(t),
   muted |-> FALSE, solo |-> FALSE, orderIndex |-> t - 1,
   notes |-> NotesOf(t)]

\* the ids crypto.randomUUID() has handed out for tracks and notes
IdsIn(tracks) ==
  { tracks[i].id : i \in 1..Len(tracks) }
    \cup UNION { NoteIds(tracks[i]) : i \in 1..Len(tracks) }

\* the track lists the interface starts from: the new project, and projects
\* to which tracks and notes have been added
StartTracks ==
  { << >>, << EditedTrack(1) >>, << EditedTrack(1), EditedTrack(2) >> }

InitUI ==
  /\ EngineInit
  /\ \E tracks \in StartTracks :
        project = [tracks |-> tracks, tempo |-> 120, made |-> IdsIn(tracks)]
  /\ uiPlaying = FALSE
  /\ pending = << >>
  /\ raced = FALSE
  /\ initialized = FALSE
  /\ newNote = [position |-> 0]
  /\ ViewInit
  /\ calc = [op |-> "none"]

\* project.tracks.forEach(track => audioEngine.createInstrument(...)): an
\* exception leaves the loop and the handler
RECURSIVE CreateAll(_, _, _, _)
CreateAll(st, tracks, i, failing) ==
  IF i > Len(tracks) \/ ~st.ok THEN st
  ELSE CreateAll(createInstrument(st, tracks[i].id, tracks[i].instrumentType,
                                  tracks[i].id = failing),
                 tracks, i + 1, failing)

\* the render whose handlePlay is running: its project and its isPlaying
Closure ==
  [tracks |-> project.tracks, tempo |-> project.tempo, isPlaying |-> uiPlaying]

\* the tempo handlePlay gives to play(): project.tempo of its render
TempoForPlay(c) == c.tempo

\* handlePlay after `await initAudio()`, for the render c
RunHandlePlay(c, failing) ==
  /\ raced' = (c.tracks # project.tracks \/ c.tempo # project.tempo)
  /\ initialized' = TRUE
  /\ IF c.isPlaying
     THEN /\ DoStop
          /\ uiPlaying' = FALSE
     ELSE \E st \in { CreateAll(Engine, c.tracks, 1, failing) } :
             IF st.ok
             THEN /\ DoPlay(st, c.tracks, TempoForPlay(c), 0)
                  /\ uiPlaying' = TRUE
             ELSE /\ synths' = st.synths
                  /\ disposed' = st.disposed
                  /\ live' = st.live
                  /\ sounding' = st.sounding
                  /\ nextSynth' = st.nextSynth
                  /\ lastOp' = "createInstrument"
                  /\ outcome' = "aborted"
                  /\ failedTrack' = st.failed
                  /\ UNCHANGED << isPlaying, transportState, bpm, events,
                                  fired, nextEvent, session, snapshot,
                                  playTempo, restart, stale, hushed, idle,
                                  ghost, retimed, uiPlaying >>

\* a handler that leaves the engine alone
EngineUntouched(op) ==
  /\ lastOp' = op
  /\ outcome' = "ok"
  /\ failedTrack' = 0
  /\ UNCHANGED << synths, disposed, live, sounding, isPlaying, transportState,
                  bpm, events, fired, nextEvent, nextSynth, session, snapshot,
                  playTempo, restart, stale, hushed, idle, ghost, retimed >>

\* handlePlay before audio is initialized: it waits at `await initAudio()`
HandlePlayBegin ==
  /\ calls < MaxUiCalls
  /\ Len(project.tracks) > 0
  /\ ~initialized
  /\ Len(pending) < MaxPending
  /\ calls' = calls + 1
  /\ pending' = Append(pending, Closure)
  /\ EngineUntouched("handlePlay")
  /\ UNCHANGED << project, uiPlaying, raced, initialized, newNote, currentTrack,
               viewVars, calc >>

\* a waiting handlePlay goes on when its initAudio() has resolved
HandlePlayResume(i, failing) ==
  /\ i \in 1..Len(pending)
  /\ pending' = SubSeq(pending, 1, i - 1) \o SubSeq(pending, i + 1, Len(pending))
  /\ RunHandlePlay(pending[i], failing)
  /\ UNCHANGED << calls, project, newNote, currentTrack,
               viewVars, calc >>

\* handlePlay once audio is initialized: nothing to wait for
HandlePlay(failing) ==
  /\ calls < MaxUiCalls
  /\ Len(project.tracks) > 0
  /\ initialized
  /\ calls' = calls + 1
  /\ RunHandlePlay(Closure, failing)
  /\ UNCHANGED << project, pending, newNote, currentTrack,
               viewVars, calc >>

\* a handleStop that leaves App's isPlaying as it is
KeepPlayingFlag(playing) == playing

\* setIsPlaying(false) of handleStop
FlagAfterHandleStop(playing) == FALSE

\* handleStop
HandleStop ==
  /\ calls < MaxUiCalls
  /\ calls' = calls + 1
  /\ DoStop
  /\ uiPlaying' = FlagAfterHandleStop(uiPlaying)
  /\ UNCHANGED << project, pending, raced, initialized, newNote, currentTrack,
               viewVars, calc >>

\* a tempo handler that never calls the engine
ForwardNever(playing) == FALSE

\* handleTempoChange's test: if (isPlaying) audioEngine.setTempo(tempo)
ForwardTempo(playing) == playing

\* handleTempoChange(tempo)
HandleTempoChange(tempo) ==
  /\ calls < MaxUiCalls
  /\ calls' = calls + 1
  /\ project' = [project EXCEPT !.tempo = tempo]
  /\ IF ForwardTempo(uiPlaying)
     THEN DoSetTempo(tempo)
     ELSE EngineUntouched("handleTempoChange")
  /\ UNCHANGED << uiPlaying, pending, raced, initialized, newNote, currentTrack,
               viewVars, calc >>

\* an edit that applies the tracks' gains to the registered voice-groups
GainsFollowEdit(st, tracks) ==
  [st EXCEPT !.synths =
     [t \in TrackIds |->
        IF st.synths[t] # NoSynth /\ \E i \in 1..Len(tracks) : tracks[i].id = t
        THEN LET i == CHOOSE j \in 1..Len(tracks) : tracks[j].id = t
             IN [st.synths[t] EXCEPT !.db = GainToDb(EffectiveGain(tracks[i]))]
        ELSE st.synths[t]]]

\* the engine after setProject(...): ProjectContext never calls it
EngineAfterEdit(st, tracks) == st

\* setProject({...project, tracks}) of the ProjectContext operations
SetProject(op, tracks, made) ==
  \E st \in { EngineAfterEdit(Engine, tracks) } :
     /\ calls < MaxUiCalls
     /\ calls' = calls + 1
     /\ project' = [project EXCEPT !.tracks = tracks, !.made = made]
     /\ synths' = st.synths
     /\ events' = st.events
     /\ lastOp' = op
     /\ outcome' = "ok"
     /\ failedTrack' = 0
     /\ UNCHANGED << disposed, live, sounding, isPlaying, transportState, bpm,
                     fired, nextEvent, nextSynth, session, snapshot, playTempo,
                     restart, stale, hushed, idle, ghost, retimed >>
     /\ UNCHANGED << uiPlaying, pending, raced, initialized, calc >>

\* an edit of the tracks that leaves the note form, the drag and the header
\* alone
EditTracks(op, tracks, made) ==
  /\ SetProject(op, tracks, made)
  /\ UNCHANGED << newNote, viewVars >>

\* updatedTracks.find(t => t.id === id), or NoTrack for undefined
FindTrack(tracks, id) ==
  IF \E j \in 1..Len(tracks) : tracks[j].id = id
  THEN tracks[CHOOSE j \in 1..Len(tracks) :
                tracks[j].id = id
                /\ \A k \in 1..(j - 1) : tracks[k].id # id]
  ELSE NoTrack

\* updateTrack has no statement about currentTrack
CurrentAfterUpdateTrack(current, updatedTracks) == current

\* if (currentTrack?.id === trackId) setCurrentTrack(null)
CurrentAfterDeleteTrack(current, trackId) ==
  IF current.id = trackId THEN NoTrack ELSE current

\* if (currentTrack?.id === trackId) and the track is found in updatedTracks,
\* setCurrentTrack(updatedCurrentTrack)
CurrentAfterAddNote(current, trackId, updatedTracks) ==
  IF current.id = trackId /\ FindTrack(updatedTracks, trackId) # NoTrack
  THEN FindTrack(updatedTracks, trackId)
  ELSE current

\* if (currentTrack) and its track is found in updatedTracks,
\* setCurrentTrack(updatedCurrentTrack)
CurrentAfterDeleteNote(current, updatedTracks) ==
  IF current # NoTrack /\ FindTrack(updatedTracks, current.id) # NoTrack
  THEN FindTrack(updatedTracks, current.id)
  ELSE current

\* { ...track, ...updates }
Merge(track, updates) ==
  [f \in DOMAIN track |->
     IF f \in DOMAIN updates THEN updates[f] ELSE track[f]]

TrackIndices == 1..Len(project.tracks)

\* project.tracks.map(track => track.id === trackId
\*                               ? { ...track, ...updates } : track)
TracksUpdated(trackId, updates) ==
  [i \in TrackIndices |->
     IF project.tracks[i].id = trackId
     THEN Merge(project.tracks[i], updates)
     ELSE project.tracks[i]]

\* updateTrack(trackId, updates)
UpdateTrack(trackId, updates) ==
  /\ EditTracks("updateTrack", TracksUpdated(trackId, updates), project.made)
  /\ currentTrack' = CurrentAfterUpdateTrack(currentTrack,
                                              TracksUpdated(trackId, updates))

\* the buttons and the slider of a track: Mute, Solo, Volume
ToggleMute(i) == UpdateTrack(project.tracks[i].id,
                             [muted |-> ~project.tracks[i].muted])

ToggleSolo(i) == UpdateTrack(project.tracks[i].id,
                             [solo |-> ~project.tracks[i].solo])

SetVolume(i, volume) ==
  /\ volume # project.tracks[i].volume
  /\ UpdateTrack(project.tracks[i].id, [volume |-> volume])

\* newTrack of addTrack(name, 'synth')
NewTrack(id, orderIndex) ==
  [id |-> id, instrumentType |-> "synth", volume |-> 70, muted |-> FALSE,
   solo |-> FALSE, orderIndex |-> orderIndex, notes |-> << >>]

\* addTrack(name, 'synth'): a new track with a fresh id, at the end
AddTrack(id) ==
  /\ id \notin project.made
  /\ EditTracks("addTrack",
                Append(project.tracks, NewTrack(id, Len(project.tracks))),
                project.made \cup {id})
  /\ UNCHANGED currentTrack

\* deleteTrack(trackId)
DeleteTrack(trackId) ==
  /\ \E i \in TrackIndices : project.tracks[i].id = trackId
  /\ EditTracks("deleteTrack",
                SelectSeq(project.tracks, LAMBDA track : track.id # trackId),
                project.made)
  /\ currentTrack' = CurrentAfterDeleteTrack(currentTrack, trackId)

\* the tracks after addNote(trackId, note): the note (pitch C, octave 4, a
\* quarter, velocity 0.8, at the given position) gets a fresh id and goes to
\* the end of the notes of track i
TracksWithNote(i, id, position) ==
  [project.tracks EXCEPT ![i].notes =
     Append(@, [id |-> id, pitch |-> "C", octave |-> 4,
                duration |-> "quarter", position |-> position,
                velocity |-> 80])]

\* addNote(trackId, newNote): the form's note with a fresh id, at the end
AddNote(i, id) ==
  /\ id \notin project.made
  /\ EditTracks("addNote", TracksWithNote(i, id, 0), project.made \cup {id})
  /\ currentTrack' = CurrentAfterAddNote(currentTrack, project.tracks[i].id,
                                          TracksWithNote(i, id, 0))

\* project.tracks.map(track => ({ ...track, notes: track.notes.filter(
\*                                   note => note.id !== noteId) }))
TracksWithoutNote(noteId) ==
  [i \in TrackIndices |->
     [project.tracks[i] EXCEPT !.notes =
        SelectSeq(@, LAMBDA note : note.id # noteId)]]

\* deleteNote(noteId)
DeleteNote(noteId) ==
  /\ \E i \in TrackIndices : noteId \in NoteIds(project.tracks[i])
  /\ EditTracks("deleteNote", TracksWithoutNote(noteId), project.made)
  /\ currentTrack' = CurrentAfterDeleteNote(currentTrack,
                                            TracksWithoutNote(noteId))

\* the tracks for which the handlePlay of render c constructs a voice-group,
\* and 0
FailingFor(c) ==
  IF c.isPlaying THEN {0}
  ELSE {0} \cup { c.tracks[i].id : i \in 1..Len(c.tracks) }

NextUI ==
  \/ HandlePlayBegin
  \/ \E i \in 1..Len(pending) :
        \E failing \in FailingFor(pending[i]) : HandlePlayResume(i, failing)
  \/ \E failing \in FailingFor(Closure) : HandlePlay(failing)
  \/ HandleStop
  \/ \E tempo \in SliderTempos : HandleTempoChange(tempo)
  \/ \E i \in TrackIndices : ToggleMute(i)
  \/ \E i \in TrackIndices : ToggleSolo(i)
  \/ \E i \in TrackIndices, volume \in VolumeChoices : SetVolume(i, volume)
  \/ \E id \in TrackIds : AddTrack(id)
  \/ \E id \in TrackIds : DeleteTrack(id)
  \/ \E i \in TrackIndices : AddNote(i, 10 * project.tracks[i].id + 9)
  \/ \E id \in IdsIn(project.tracks) : DeleteNote(id)

SpecUI == InitUI /\ [][NextUI]_vars

\* ---------------------------------------------- the editors of the project
\* Tracks and notes as App, MultiTrackTimeline and TrackRow edit them, from
\* the empty project createProject makes.  A position is counted here in
\* quarters of a beat, the grid of the timeline and the step of the form:
\* 4 is beat 1, 1 is beat 0.25, -4 is beat -1.

\* the ids crypto.randomUUID() can hand out to tracks and to notes
EditTrackIds == 1..3

EditNoteIds == {91, 92}

\* GRID_SIZE: the pixels of a beat
GRID_SIZE == 60

\* Math.round(pixels / GRID_SIZE * 4): the nearest grid line, halves upwards
RoundToGrid(pixels) == (8 * pixels + GRID_SIZE) \div (2 * GRID_SIZE)

\* Math.max(0, x)
AtLeastZero(x) == IF x < 0 THEN 0 ELSE x

\* numbers typed into the Position field: -1, 0, 0.25 and 2 beats
FormPositions == {0 - 4, 0, 1, 8}

\* clientX - rect.left of a click in a track row, in pixels
ClickPixels == {0, 7, 8, 130}

\* clientX - startX of a mouse move while a note is dragged, in pixels
DragPixels == {0 - 200, 30}

\* the Position field's onChange: setNewNote({...newNote, position})
SetNotePosition(position) ==
  /\ calls < MaxUiCalls
  /\ calls' = calls + 1
  /\ position # newNote.position
  /\ newNote' = [position |-> position]
  /\ EngineUntouched("setNewNote")
  /\ UNCHANGED << project, uiPlaying, pending, raced, initialized,
                  currentTrack, viewVars, calc >>

\* handleAddNote on the current track i: addNote(currentTrack.id, newNote),
\* then the form moves one beat on
HandleAddNote(i, id) ==
  /\ id \notin project.made
  /\ SetProject("handleAddNote", TracksWithNote(i, id, newNote.position),
                project.made \cup {id})
  /\ currentTrack' = CurrentAfterAddNote(
                        currentTrack, project.tracks[i].id,
                        TracksWithNote(i, id, newNote.position))
  /\ newNote' = [position |-> newNote.position + 4]
  /\ UNCHANGED viewVars

\* track.notes.find(note => Math.abs(note.position - position) < 0.01)
NoteAt(track, position) ==
  \E k \in 1..Len(track.notes) : track.notes[k].position = position

\* handleTrackClick with the left button at clickX pixels in the row of
\* track i: a note is added on the grid unless one is there
HandleTrackClick(i, clickX, id) ==
  \E snappedPosition \in { AtLeastZero(RoundToGrid(clickX)) } :
     IF NoteAt(project.tracks[i], snappedPosition)
     THEN /\ calls < MaxUiCalls
          /\ calls' = calls + 1
          /\ EngineUntouched("handleTrackClick")
          /\ UNCHANGED << uiVars, calc >>
     ELSE /\ id \notin project.made
          /\ EditTracks("handleTrackClick",
                        TracksWithNote(i, id, snappedPosition),
                        project.made \cup {id})
          /\ currentTrack' = CurrentAfterAddNote(
                                currentTrack, project.tracks[i].id,
                                TracksWithNote(i, id, snappedPosition))

\* updateNote(noteId, updates) of the project state: the note with that id
\* takes the updates, every other note and every track stay as they are
updateNote(tracks, noteId, updates) ==
  [i \in 1..Len(tracks) |->
     [tracks[i] EXCEPT !.notes =
        [k \in 1..Len(tracks[i].notes) |->
           IF tracks[i].notes[k].id = noteId
           THEN Merge(tracks[i].notes[k], updates)
           ELSE tracks[i].notes[k]]]]

\* handleNoteDrag: note k of track i is dragged by deltaX pixels
HandleNoteDrag(i, k, deltaX) ==
  LET startPosition == project.tracks[i].notes[k].position
      newPosition   == AtLeastZero(RoundToGrid(
                          startPosition * (GRID_SIZE \div 4) + deltaX))
  IN /\ EditTracks("handleNoteDrag",
                    updateNote(project.tracks, project.tracks[i].notes[k].id,
                               [position |-> newPosition]),
                    project.made)
     /\ UNCHANGED currentTrack

\* the sorted list with one more track, after those of its orderIndex or less
InsertByOrder(sorted, track) ==
  LET k == Cardinality({ j \in 1..Len(sorted) :
                           sorted[j].orderIndex <= track.orderIndex })
  IN SubSeq(sorted, 1, k) \o << track >> \o SubSeq(sorted, k + 1, Len(sorted))

\* [...tracks].sort((a, b) => a.orderIndex - b.orderIndex): a stable sort
RECURSIVE SortByOrderIndex(_)
SortByOrderIndex(tracks) ==
  IF tracks = << >> THEN << >>
  ELSE InsertByOrder(SortByOrderIndex(SubSeq(tracks, 1, Len(tracks) - 1)),
                     tracks[Len(tracks)])

\* the index of the track with an id, from 1
IndexOfTrack(tracks, id) == CHOOSE j \in 1..Len(tracks) : tracks[j].id = id

\* a drop that makes the dragged track and the target change places
SwapTracks(tracks, from, to) ==
  [j \in 1..Len(tracks) |->
     IF j = from THEN tracks[to] ELSE IF j = to THEN tracks[from] ELSE tracks[j]]

\* reordered.splice(draggedIndex, 1); reordered.splice(targetIndex, 0, track)
MoveTrack(tracks, from, to) ==
  LET rest == SubSeq(tracks, 1, from - 1)
                \o SubSeq(tracks, from + 1, Len(tracks))
  IN SubSeq(rest, 1, to - 1) \o << tracks[from] >>
       \o SubSeq(rest, to, Len(rest))

\* reordered.map((track, index) => ({ ...track, orderIndex: index }))
Reindexed(tracks) ==
  [j \in 1..Len(tracks) |-> [tracks[j] EXCEPT !.orderIndex = j - 1]]

\* reorderTracks(tracks) of the project state: the project takes the list
reorderTracks(tracks) == tracks

\* sortedTracks.findIndex(t => t.id === id) is not -1
InTracks(tracks, id) == \E j \in 1..Len(tracks) : tracks[j].id = id

\* handleTrackDragStart(trackId)
HandleTrackDragStart(trackId) ==
  /\ calls < MaxUiCalls
  /\ calls' = calls + 1
  /\ draggedTrackId' = trackId
  /\ EngineUntouched("handleTrackDragStart")
  /\ UNCHANGED << project, uiPlaying, pending, raced, initialized, newNote,
                  currentTrack, dragOverTrackId, headerVars, calc >>

\* handleTrackDragOver(trackId)
HandleTrackDragOver(trackId) ==
  /\ calls < MaxUiCalls
  /\ calls' = calls + 1
  /\ dragOverTrackId' = trackId
  /\ EngineUntouched("handleTrackDragOver")
  /\ UNCHANGED << project, uiPlaying, pending, raced, initialized, newNote,
                  currentTrack, draggedTrackId, headerVars, calc >>

\* handleTrackDragEnd
HandleTrackDragEnd ==
  /\ calls < MaxUiCalls
  /\ calls' = calls + 1
  /\ draggedTrackId' = 0
  /\ dragOverTrackId' = 0
  /\ EngineUntouched("handleTrackDragEnd")
  /\ UNCHANGED << project, uiPlaying, pending, raced, initialized, newNote,
                  currentTrack, headerVars, calc >>

\* handleTrackDrop(targetTrackId): the dragged track is dropped on the row of
\* the target track
HandleTrackDrop(targetTrackId) ==
  \E sortedTracks \in { SortByOrderIndex(project.tracks) } :
     IF draggedTrackId = 0 \/ draggedTrackId = targetTrackId
     THEN /\ calls < MaxUiCalls
          /\ calls' = calls + 1
          /\ draggedTrackId' = 0
          /\ dragOverTrackId' = 0
          /\ EngineUntouched("handleTrackDrop")
          /\ UNCHANGED << project, uiPlaying, pending, raced, initialized,
                          newNote, currentTrack, headerVars, calc >>
     ELSE IF ~InTracks(sortedTracks, draggedTrackId)
               \/ ~InTracks(sortedTracks, targetTrackId)
     THEN /\ calls < MaxUiCalls
          /\ calls' = calls + 1
          /\ EngineUntouched("handleTrackDrop")
          /\ UNCHANGED << uiVars, calc >>
     ELSE /\ SetProject("handleTrackDrop",
                        reorderTracks(Reindexed(MoveTrack(
                           sortedTracks,
                           IndexOfTrack(sortedTracks, draggedTrackId),
                           IndexOfTrack(sortedTracks, targetTrackId)))),
                        project.made)
          /\ draggedTrackId' = 0
          /\ dragOverTrackId' = 0
          /\ UNCHANGED << newNote, currentTrack, headerVars >>

\* the ids of the tracks of the project
ProjectTrackIds == { project.tracks[i].id : i \in TrackIndices }

NextEdit ==
  \/ \E id \in EditTrackIds : AddTrack(id)
  \/ \E id \in EditTrackIds : DeleteTrack(id)
  \/ \E position \in FormPositions : SetNotePosition(position)
  \/ \E i \in TrackIndices, id \in EditNoteIds : HandleAddNote(i, id)
  \/ \E i \in TrackIndices, clickX \in ClickPixels, id \in EditNoteIds :
        HandleTrackClick(i, clickX, id)
  \/ \E i \in TrackIndices :
        \E k \in 1..Len(project.tracks[i].notes), deltaX \in DragPixels :
          HandleNoteDrag(i, k, deltaX)

SpecEdit == Init /\ [][NextEdit]_vars

\* ------------------------------------------------- the selected track
\* A track of the list is selected, and the project is edited with
\* updateTrack, deleteTrack, addNote and deleteNote.

\* a click on the item of track i: setCurrentTrack(track)
SelectTrack(i) ==
  /\ calls < MaxUiCalls
  /\ calls' = calls + 1
  /\ currentTrack' = project.tracks[i]
  /\ EngineUntouched("setCurrentTrack")
  /\ UNCHANGED << project, uiPlaying, pending, raced, initialized, newNote,
                  viewVars, calc >>

NextCurrent ==
  \/ \E i \in TrackIndices : SelectTrack(i)
  \/ \E i \in TrackIndices : ToggleMute(i)
  \/ \E i \in TrackIndices, volume \in VolumeChoices : SetVolume(i, volume)
  \/ \E id \in TrackIds : DeleteTrack(id)
  \/ \E i \in TrackIndices : AddNote(i, 10 * project.tracks[i].id + 9)
  \/ \E id \in IdsIn(project.tracks) : DeleteNote(id)

SpecCurrent == InitUI /\ [][NextCurrent]_vars

\* ------------------------------------------------ the drag of a track row
\* MultiTrackTimeline's rows are dragged and dropped on one another, in a
\* project to which three tracks have been added; tracks are added and
\* deleted in between.

\* the ids crypto.randomUUID() can hand out to tracks
DragTrackIds == 1..4

InitDrag ==
  /\ EngineInit
  /\ project = [tracks |-> << NewTrack(1, 0), NewTrack(2, 1), NewTrack(3, 2) >>,
                tempo |-> 120, made |-> {1, 2, 3}]
  /\ uiPlaying = FALSE
  /\ pending = << >>
  /\ raced = FALSE
  /\ initialized = FALSE
  /\ newNote = [position |-> 0]
  /\ ViewInit
  /\ calc = [op |-> "none"]

NextDrag ==
  \/ \E id \in DragTrackIds : AddTrack(id)
  \/ \E id \in DragTrackIds : DeleteTrack(id)
  \/ \E trackId \in ProjectTrackIds : HandleTrackDragStart(trackId)
  \/ \E trackId \in ProjectTrackIds : HandleTrackDragOver(trackId)
  \/ \E trackId \in ProjectTrackIds : HandleTrackDrop(trackId)
  \/ HandleTrackDragEnd

SpecDrag == InitDrag /\ [][NextDrag]_vars

\* ------------------------------------------------ the name of a track
\* The TrackHeader of the first track of a project with one track.  A text
\* is the sequence of its characters.

MIN_NAME_LENGTH == 1

MAX_NAME_LENGTH == 50

\* [a-zA-Z]
Letters ==
  { "a", "b", "c", "d", "e", "f", "g", "h", "i", "j", "k", "l", "m", "n", "o",
    "p", "q", "r", "s", "t", "u", "v", "w", "x", "y", "z", "A", "B", "C", "D",
    "E", "F", "G", "H", "I", "J", "K", "L", "M", "N", "O", "P", "Q", "R", "S",
    "T", "U", "V", "W", "X", "Y", "Z" }

\* the characters \s matches and trim() removes, of those that are typed or
\* pasted here: the space and the tab
Whitespace == { " ", "\t" }

\* VALID_NAME_PATTERN.test(name): /^[a-zA-Z0-9\s\-_]+$/
VALID_NAME_PATTERN(name) ==
  /\ Len(name) >= 1
  /\ \A i \in 1..Len(name) :
        name[i] \in Letters \cup Digits \cup Whitespace \cup { "-", "_" }

\* text.trim()
RECURSIVE Trim(_)
Trim(text) ==
  IF text = << >> THEN text
  ELSE IF text[1] \in Whitespace THEN Trim(Tail(text))
  ELSE IF text[Len(text)] \in Whitespace
       THEN Trim(SubSeq(text, 1, Len(text) - 1))
  ELSE text

\* validateTrackName(name): the message, or "null"
validateTrackName(name) ==
  IF Len(name) < MIN_NAME_LENGTH THEN "Track name is required"
  ELSE IF Len(name) > MAX_NAME_LENGTH
       THEN "Track name must be 50 characters or less"
  ELSE IF ~VALID_NAME_PATTERN(name)
       THEN "Track name can only contain letters, numbers, spaces, hyphens, and underscores"
  ELSE "null"

\* the name addTrack gets from App: `Track ${project.tracks.length + 1}`
FirstTrackName == << "T", "r", "a", "c", "k", " ", "1" >>

\* newTrack of addTrack(name, 'synth'), with its name
NamedTrack(id, orderIndex, name) ==
  [id |-> id, name |-> name, instrumentType |-> "synth", volume |-> 70,
   muted |-> FALSE, solo |-> FALSE, orderIndex |-> orderIndex,
   notes |-> << >>]

\* the texts the name field is given: typed, pasted (a tab stays in the
\* value of a text input), or longer than maxLength lets the keyboard type
EditTexts ==
  { << >>,
    << " ", " " >>,
    << "a" >>,
    << " ", "a", "1", " " >>,
    << "a", " ", "b", "-", "_" >>,
    << "a", "!" >>,
    << "a", "\t", "b" >>,
    << "B", "_", "2" >>,
    << "T", "r", "a", "c", "k", " ", "2" >>,
    << " " >> \o [i \in 1..MAX_NAME_LENGTH |-> "a"],
    [i \in 1..MAX_NAME_LENGTH |-> "a"],
    [i \in 1..(MAX_NAME_LENGTH + 1) |-> "a"] }

\* the track of the header, and its name
HeaderTrack == project.tracks[1]

TrackName == HeaderTrack.name

InitHeader ==
  /\ EngineInit
  /\ project = [tracks |-> << NamedTrack(1, 0, FirstTrackName) >>,
                tempo |-> 120, made |-> {1}]
  /\ uiPlaying = FALSE
  /\ pending = << >>
  /\ raced = FALSE
  /\ initialized = FALSE
  /\ newNote = [position |-> 0]
  /\ currentTrack = NoTrack
  /\ draggedTrackId = 0
  /\ dragOverTrackId = 0
  /\ isEditing = FALSE
  /\ editValue = FirstTrackName
  /\ nameError = "null"
  /\ calc = [op |-> "none"]

\* a handler of the header that changes the header's state only
HeaderOnly(op) ==
  /\ calls < MaxUiCalls
  /\ calls' = calls + 1
  /\ EngineUntouched(op)
  /\ UNCHANGED << project, uiPlaying, pending, raced, initialized, newNote,
                  currentTrack, dragVars, calc >>

\* handleDoubleClick on the name, which is shown while it is not edited
HandleDoubleClick ==
  /\ ~isEditing
  /\ isEditing' = TRUE
  /\ editValue' = TrackName
  /\ nameError' = "null"
  /\ HeaderOnly("handleDoubleClick")

\* the name field's onChange: setEditValue(e.target.value)
ChangeEditValue(text) ==
  /\ isEditing
  /\ text # editValue
  /\ editValue' = text
  /\ HeaderOnly("setEditValue")
  /\ UNCHANGED << isEditing, nameError >>

\* handleSaveName
HandleSaveName ==
  \E trimmedName \in { Trim(editValue) } :
     \E error \in { validateTrackName(trimmedName) } :
        IF error # "null"
        THEN /\ nameError' = error
             /\ HeaderOnly("handleSaveName")
             /\ UNCHANGED << isEditing, editValue >>
        ELSE /\ SetProject("handleSaveName",
                           TracksUpdated(HeaderTrack.id,
                                         [name |-> trimmedName]),
                           project.made)
             /\ currentTrack' = CurrentAfterUpdateTrack(
                                   currentTrack,
                                   TracksUpdated(HeaderTrack.id,
                                                 [name |-> trimmedName]))
             /\ isEditing' = FALSE
             /\ nameError' = "null"
             /\ UNCHANGED << newNote, dragVars, editValue >>

\* handleCancelEdit
HandleCancelEdit ==
  /\ isEditing' = FALSE
  /\ editValue' = TrackName
  /\ nameError' = "null"
  /\ HeaderOnly("handleCancelEdit")

\* handleKeyDown in the name field
HandleKeyDown(key) ==
  /\ isEditing
  /\ IF key = "Enter" THEN HandleSaveName ELSE HandleCancelEdit

\* the name field loses the focus: onBlur={handleSaveName}
HandleBlur ==
  /\ isEditing
  /\ HandleSaveName

NextHeader ==
  \/ HandleDoubleClick
  \/ \E text \in EditTexts : ChangeEditValue(text)
  \/ \E key \in { "Enter", "Escape" } : HandleKeyDown(key)
  \/ HandleBlur

SpecHeader == InitHeader /\ [][NextHeader]_vars

\* ---------------------------------------------------- vocabulary of claims

SnapshotIndices == 1..Len(snapshot)

EventsOfTrack(t) == { e \in events : e.track = t }

\* the (track, note) pairs of the unmuted tracks of the latest snapshot
SnapshotKeys ==
  UNION { { << snapshot[i].id, n >> : n \in NoteIds(snapshot[i]) } :
            i \in { j \in SnapshotIndices : ~snapshot[j].muted } }

EventKeys == { << e.track, e.note >> : e \in events }

SomeSolo == \E i \in SnapshotIndices : snapshot[i].solo

\* scheduleTrack ran to its end for snapshot[i] in the latest play()
Scheduled(i) ==
  /\ ~snapshot[i].muted
  /\ \/ failedTrack = 0
     \/ \E j \in SnapshotIndices : j > i /\ snapshot[j].id = failedTrack

\* beatsFor(duration), in quarters of a beat
QuarterBeatsFor(duration) ==
  CASE duration = "whole"     -> 16
    [] duration = "half"      -> 8
    [] duration = "quarter"   -> 4
    [] duration = "eighth"    -> 2
    [] duration = "sixteenth" -> 1

\* ------------------------------------------------------------------ claims

\* C1: after stop() returns no trigger is registered, and no trigger that
\* was registered when a stop() ran ever fires afterwards.
C1_StopCancelsEveryTrigger ==
  /\ lastOp = "stop" => events = {}
  /\ ~ghost
  /\ \A e \in events : e.id \notin stale

\* C1 witness: a stop() has cancelled the triggers of a session
C1_Witness == lastOp = "stop" /\ stale # {} /\ session >= 1

\* C2: after a play() the registered triggers are those of that play()'s
\* snapshot (all of them once play() has returned) and none of an earlier
\* session, also when the play() found a session running.
C2_OnlyLatestSession ==
  lastOp = "play" =>
    /\ \A e \in events : e.session = session
    /\ EventKeys \subseteq SnapshotKeys
    /\ outcome = "ok" =>
         /\ EventKeys = SnapshotKeys
         /\ Cardinality(events) = Cardinality(SnapshotKeys)

\* C2 witness: a play() on a running session has replaced its triggers
C2_Witness ==
  /\ lastOp = "play" /\ outcome = "ok" /\ restart
  /\ stale # {} /\ events # {}

\* C3: when a track of the snapshot is solo, play() leaves every non-solo
\* track silent (no trigger, gain 0), and unmuted solo tracks at their volume.
C3_SoloSilencesOthers ==
  (lastOp = "play" /\ outcome = "ok" /\ SomeSolo) =>
    \A i \in SnapshotIndices :
      IF ~snapshot[i].solo
      THEN /\ EventsOfTrack(snapshot[i].id) = {}
           /\ synths[snapshot[i].id] # NoSynth
                => synths[snapshot[i].id].db = GainToDb(0)
      ELSE ~snapshot[i].muted
             => synths[snapshot[i].id].db = GainToDb(snapshot[i].volume)

\* C4: after a play() no trigger is registered for a track muted in the
\* snapshot, and every note of every unmuted track is registered.
C4_MutedTracksNotScheduled ==
  lastOp = "play" =>
    \A i \in SnapshotIndices :
      IF snapshot[i].muted
      THEN EventsOfTrack(snapshot[i].id) = {}
      ELSE outcome = "ok" =>
             { e.note : e \in EventsOfTrack(snapshot[i].id) }
                = NoteIds(snapshot[i])

\* C4 witness: a play() of a muted track followed by an unmuted one
C4_Witness ==
  /\ lastOp = "play" /\ outcome = "ok" /\ Len(snapshot) = 2
  /\ snapshot[1].muted /\ ~snapshot[2].muted
  /\ EventsOfTrack(snapshot[2].id) # {}

\* C5: after a play() each note of each scheduled track has exactly one
\* trigger, at note.position beats, lasting (60/tempo)*beatsFor(duration)
\* seconds for the tempo given to play(), with the note's velocity; a
\* quarter note at position 0 with velocity 0.8 at 120 BPM lasts 1/2 s.
C5_OneTriggerPerNote ==
  lastOp = "play" =>
    /\ \A i \in { j \in SnapshotIndices : Scheduled(j) } :
         \A k \in 1..Len(snapshot[i].notes) :
           LET note == snapshot[i].notes[k]
               trig == { e \in events :
                           e.track = snapshot[i].id /\ e.note = note.id }
           IN /\ Cardinality(trig) = 1
              /\ \A e \in trig :
                   /\ TimeKey(e.time) = 4 * note.position
                   /\ e.duration[1] * 4 * playTempo
                        = 60 * QuarterBeatsFor(note.duration) * e.duration[2]
                   /\ e.velocity = note.velocity
    /\ playTempo = 120 =>
         \A e \in events :
           e.note = 11 =>
             /\ e.time = [bars |-> 0, quarters |-> 0, sixteenths |-> 0]
             /\ e.duration = << 1, 2 >>
             /\ e.velocity = 80

\* C5 witness: the quarter note at position 0 scheduled at 120 BPM, next to
\* an eighth note at beat 4
C5_Witness ==
  /\ lastOp = "play" /\ playTempo = 120
  /\ \E e \in events : e.note = 11 /\ e.duration = << 1, 2 >>
  /\ \E e \in events : e.note = 12 /\ e.duration = << 1, 4 >>

\* C6: play([], tempo) is a no-op: nothing scheduled, clock not started,
\* isPlaying() false.
C6_EmptyPlayIsNoOp ==
  (lastOp = "play" /\ snapshot = << >>) =>
    /\ events = {}
    /\ transportState = "stopped"
    /\ ~isPlaying

\* C7: when the voice-group of one track cannot be created during play(),
\* every other unmuted track is still scheduled and the clock is started.
C7_FailureAffectsOneTrack ==
  (lastOp = "play" /\ failedTrack # 0) =>
    /\ transportState = "started"
    /\ \A i \in SnapshotIndices :
         (~snapshot[i].muted /\ snapshot[i].id # failedTrack) =>
            { e.note : e \in EventsOfTrack(snapshot[i].id) }
               = NoteIds(snapshot[i])

\* C8: the tempo held by the transport clock is always within 60..200.
C8_TempoInRange == bpm \in MinTempo..MaxTempo

\* C9: isPlaying() is true exactly when the transport clock is running,
\* after every operation, a play() that aborted included.
C9_FlagReflectsClock == isPlaying <=> (transportState = "started")

\* C9 witness: a play() on a running session aborted part-way
C9_Witness ==
  lastOp = "play" /\ outcome = "aborted" /\ restart /\ ~isPlaying

\* C10: triggers are registered only while the clock is running.
C10_TriggersOnlyWhileRunning ==
  events # {} => transportState = "started"

\* the live voice-groups constructed for a track
LiveOfTrack(t) == { l \in live : l.track = t }

\* C11: at most one live voice-group exists per track id, the registry maps
\* the track id to it, and every voice-group that was replaced or cleared is
\* disposed.
C11_OneLiveVoiceGroupPerTrack ==
  /\ \A t \in TrackIds :
       /\ Cardinality(LiveOfTrack(t)) <= 1
       /\ \A l \in LiveOfTrack(t) : synths[t].uid = l.uid
  /\ \A u \in 1..(nextSynth - 1) :
       u \in disposed \/ u \in RegisteredUids(synths)

\* C11 witness: a second createInstrument for track 1 replaced voice-group 1
C11_Witness ==
  /\ lastOp = "createInstrument" /\ outcome = "ok" /\ calls = 2
  /\ synths[1].uid = 2 /\ 1 \in disposed /\ synths[2] = NoSynth

\* C12: after stop() returns no voice-group has a note sounding, whatever
\* track it belongs to.
C12_StopSilencesEveryVoice == lastOp = "stop" => sounding = {}

\* C12 witness: stop() silenced a voice-group of a track that is not in the
\* snapshot of the session
C12_Witness ==
  /\ lastOp = "stop" /\ session >= 1
  /\ \E t \in TrackIds :
       /\ synths[t] # NoSynth /\ synths[t].uid \in hushed
       /\ \A i \in 1..Len(snapshot) : snapshot[i].id # t

\* the note of the latest snapshot a trigger was registered for
NoteOfTrigger(e) ==
  LET i == CHOOSE j \in SnapshotIndices : snapshot[j].id = e.track
      k == CHOOSE m \in 1..Len(snapshot[i].notes) :
                      snapshot[i].notes[m].id = e.note
  IN snapshot[i].notes[k]

\* seconds from the start of the transport to a trigger's position, at a
\* constant tempo: a quarter lasts 60/tempo seconds
OnsetSeconds(e, tempo) == Rat(TimeKey(e.time) * 60, 4 * tempo)

\* C13: setTempo(bpm) while the clock is running changes the clock's tempo
\* and nothing else: the registered triggers, their positions and their
\* durations (still those of the tempo given to play()) stay, so from 120 to
\* 60 BPM every trigger's distance from the start doubles in seconds.
C13_SetTempoKeepsTriggers ==
  [][ \A tempo \in TempoChanges :
        (transportState = "started" /\ SetTempo(tempo)) =>
           /\ bpm' = tempo
           /\ UNCHANGED << events, fired, transportState, isPlaying, synths,
                           sounding >>
           /\ \A e \in events' :
                 LET note == NoteOfTrigger(e)
                 IN /\ TimeKey(e.time) = 4 * note.position
                    /\ e.duration[1] * 4 * playTempo
                         = 60 * QuarterBeatsFor(note.duration) * e.duration[2]
                    /\ (bpm = 120 /\ tempo = 60) =>
                          OnsetSeconds(e, bpm')[1] * OnsetSeconds(e, bpm)[2]
                            = 2 * OnsetSeconds(e, bpm)[1]
                                * OnsetSeconds(e, bpm')[2] ]_vars

\* C13 witness: the tempo went from 120 to 60 on a running session whose
\* eighth note at beat 4 has not fired and still lasts 1/4 s
C13_Witness ==
  /\ lastOp = "setTempo" /\ transportState = "started"
  /\ bpm = 60 /\ playTempo = 120
  /\ \E e \in events :
       /\ e.id \notin fired /\ TimeKey(e.time) = 16
       /\ e.duration = << 1, 4 >>
       /\ OnsetSeconds(e, 120) = << 2, 1 >> /\ OnsetSeconds(e, 60) = << 4, 1 >>

\* the fields of the engine and of the transport
engineVars ==
  << synths, disposed, live, sounding, isPlaying, transportState, bpm, events,
     fired >>

\* C15: stop() on a stopped session with an empty timeline changes neither
\* the running flag, the timeline, the tempo nor the registry, and a stop()
\* right after a stop() changes nothing at all.
C15_StopIsIdempotent ==
  [][ /\ (transportState = "stopped" /\ events = {} /\ Stop)
          => UNCHANGED << isPlaying, transportState, events, bpm, synths,
                          disposed, live >>
      /\ (lastOp = "stop" /\ Stop) => UNCHANGED engineVars ]_vars

\* C15 witness: a stop() right after a stop() that ended a session
C15_Witness ==
  lastOp = "stop" /\ idle /\ session = 1 /\ stale # {}
    /\ transportState = "stopped" /\ ~isPlaying /\ events = {}

\* C16: scheduleTrack of a muted track applies gain 0 to its voice-group,
\* whatever its volume and its solo flag.
C16_MutedTrackHasGainZero ==
  [][ lastOp' = "scheduleTrack" =>
        \A t \in TrackIds : \A track \in TrackChoices(t) :
          (track.muted /\ ScheduleTrack(track, FALSE))
             => /\ EffectiveGain(track) = 0
                /\ synths'[t].db = GainToDb(0) ]_vars

\* C16 witness: a muted track was scheduled and its voice-group has gain 0
C16_Witness ==
  /\ lastOp = "scheduleTrack" /\ outcome = "ok"
  /\ \E t \in TrackIds :
       /\ synths[t] # NoSynth /\ synths[t].db = GainToDb(0)
       /\ EventsOfTrack(t) # {}

\* C17: after scheduleTrack(track), and after play(), the voice-group the
\* track's triggers are registered on is one of the track's instrument kind.
C17_VoiceGroupHasTrackKind ==
  (lastOp \in {"scheduleTrack", "play"} /\ outcome = "ok") =>
    \A e \in events :
      (e.session = session /\ e.synth = synths[e.track].uid) =>
         /\ synths[e.track].kind = KindOf(e.track)
         /\ synths[e.track].preset = Preset(KindOf(e.track))

\* C19: for every duration class and every tempo of 60..200,
\* getDurationInSeconds is (60/tempo) * beatsFor(class); it is strictly
\* smaller one BPM faster (within the range), and a whole note lasts four
\* quarter notes.
C19_DurationFormula ==
  calc.op = "getDurationInSeconds" =>
    /\ calc.seconds[1] * 4 * calc.tempo
         = 60 * QuarterBeatsFor(calc.duration) * calc.seconds[2]
    /\ calc.tempo < MaxTempo =>
         calc.faster[1] * calc.seconds[2] < calc.seconds[1] * calc.faster[2]
    /\ calc.whole[1] * calc.quarter[2] = 4 * calc.quarter[1] * calc.whole[2]

\* C19 witness: a sixteenth note at 200 BPM lasts 3/40 s, a whole note 6/5 s
C19_Witness ==
  /\ calc.op = "getDurationInSeconds"
  /\ calc.duration = "sixteenth" /\ calc.tempo = 200
  /\ calc.seconds = << 3, 40 >> /\ calc.whole = << 6, 5 >>

\* C20: the transport time registered for a note denotes exactly
\* note.position beats (no bars, no sixteenths, position quarters), for every
\* non-negative position, and the text is always transport notation.
C20_TransportTimeIsPosition ==
  calc.op = "schedule" =>
    /\ IsTransportNotation(calc.text)
    /\ calc.time.bars = Zero
    /\ calc.time.sixteenths = Zero
    /\ calc.time.quarters = calc.position

GainsOfSnapshot ==
  \A i \in SnapshotIndices :
    ~snapshot[i].muted =>
       synths[snapshot[i].id].db = GainToDb(snapshot[i].volume)

C21_ReadReturnsBuffer ==
  [][ (calc'.op = "getAnalyserData" /\ Read) =>
         /\ UNCHANGED << engineState, uiVars >>
         /\ calc'.data.length = 2048
         /\ session = 0 => calc'.data.samples = "zeros" ]_vars

\* C21 witness: a read after a setTempo and before any play() returned a
\* buffer of zeros
C21_Witness ==
  /\ calc.op = "getAnalyserData" /\ calc.data.length = 2048
  /\ calc.plays = 0 /\ calc.data.samples = "zeros"
  /\ session = 0 /\ lastOp = "setTempo" /\ bpm = 250

\* C22: createInstrument with a kind outside the six known kinds does not
\* fail: it registers, for that track id, a live voice-group built from the
\* default preset (a PolySynth of Tone.Synth with no options).
C22_UnknownKindGetsDefault ==
  [][ lastOp' = "createInstrument" =>
        \A t \in TrackIds : \A k \in UnknownKinds :
          CreateInstrument(t, k, FALSE) =>
             /\ outcome' = "ok"
             /\ synths'[t] # NoSynth
             /\ synths'[t].uid = nextSynth
             /\ synths'[t].kind = k
             /\ synths'[t].preset = [voice |-> "Synth", oscillator |-> "default"]
             /\ [uid |-> nextSynth, track |-> t] \in live' ]_vars

\* C22 witness: an 'organ' voice-group is registered for track 1
C22_Witness ==
  /\ lastOp = "createInstrument" /\ outcome = "ok"
  /\ synths[1] # NoSynth /\ synths[1].kind = "organ"
  /\ synths[1].preset = [voice |-> "Synth", oscillator |-> "default"]
  /\ synths[1].uid \notin disposed

\* C23: after dispose() the session is stopped (no trigger registered, the
\* clock stopped, isPlaying false), every voice-group that was registered
\* has been disposed and none of them is live, and the registry is empty.
C23_DisposeClearsEverything ==
  [][ (lastOp' = "dispose" /\ Dispose) =>
         /\ events' = {}
         /\ transportState' = "stopped"
         /\ ~isPlaying'
         /\ RegisteredUids(synths) \subseteq disposed'
         /\ \A l \in live' : l.uid \notin RegisteredUids(synths)
         /\ \A t \in TrackIds : synths'[t] = NoSynth ]_vars

\* C23 witness: dispose() ended a running session of two tracks, whose
\* voice-groups 1 and 2 are disposed
C23_Witness ==
  /\ lastOp = "dispose" /\ session = 1 /\ Len(snapshot) = 2
  /\ stale # {} /\ events = {} /\ ~isPlaying
  /\ disposed = {1, 2} /\ live = {}
  /\ \A t \in TrackIds : synths[t] = NoSynth

\* C24: every registered trigger targets the voice-group that is registered
\* for its track now, and that voice-group is not disposed.
C24_TriggersTargetRegistered ==
  \A e \in events :
    /\ synths[e.track] # NoSynth
    /\ e.synth = synths[e.track].uid
    /\ e.synth \notin disposed

\* C25: when play() is invoked while a session is running, the triggers of
\* that session are cancelled before the new tempo is assigned to the clock:
\* no trigger is registered at the moment of the assignment.
C25_StoppedBeforeTempoSet ==
  (lastOp = "play" /\ restart) => retimed = {}

\* C26: the tracks and the tempo handlePlay gives to play() are the project's
\* at the moment play() runs, also when the project was edited while
\* handlePlay was waiting for initAudio(); so while the clock is running its
\* tempo is project.tempo.
C26_PlayUsesCurrentProject ==
  /\ lastOp = "play" =>
       /\ playTempo = project.tempo
       /\ snapshot = project.tracks
  /\ transportState = "started" => bpm = project.tempo

\* C27: App's isPlaying state equals the engine's isPlaying flag whenever no
\* handler is under way, also after Play was clicked again while an earlier
\* handlePlay was waiting for initAudio().
C27_UiFlagMatchesEngine ==
  pending = << >> => uiPlaying = isPlaying

\* C27 witness: two handlePlay calls waited together and both went on; the
\* second restarted the session the first had started
C27_Witness ==
  /\ pending = << >> /\ session = 2 /\ restart /\ calls = 2
  /\ lastOp = "play" /\ uiPlaying /\ isPlaying

\* C28: a running session never stops by itself: the clock takes a step
\* from running to stopped, and isPlaying from true to false, only in a call
\* of stop(), play() or dispose(); they stay as they are while the triggers
\* fire and after the last one has fired.
C28_RunsUntilStopped ==
  [][ (transportState = "started" /\ isPlaying
         /\ ~(transportState' = "started" /\ isPlaying'))
        => /\ lastOp' \in {"stop", "play", "dispose"}
           /\ calls' = calls + 1 ]_vars

\* C28 witness: every trigger of the session has fired and the clock runs
C28_Witness ==
  /\ transportState = "started" /\ isPlaying /\ lastOp = "play"
  /\ Cardinality(events) = 3
  /\ \A e \in events : e.id \in fired

\* C29: every note stored in the project has a position of 0 or more, after
\* any sequence of notes added from the form and by clicks on the timeline
\* and of drags.
C29_PositionsNotNegative ==
  \A i \in TrackIndices :
    \A k \in 1..Len(project.tracks[i].notes) :
      project.tracks[i].notes[k].position >= 0

\* C30: the tracks of the project have pairwise-distinct orderIndex values.
C30_OrderIndexDistinct ==
  \A i \in TrackIndices : \A j \in TrackIndices :
    i # j => project.tracks[i].orderIndex # project.tracks[j].orderIndex

\* the ids of a track list, in its order
IdsOf(tracks) == [j \in 1..Len(tracks) |-> tracks[j].id]

\* C31: a drop of the dragged track X on the row of another track Y, both in
\* the project, leaves a track list with the same ids whose orderIndex values
\* are 0..n-1 in the display order, with X at the index Y had and the other
\* tracks in the order they had, and no track is dragged any more; a drop of
\* X on its own row leaves the project as it was.
C31_DropMovesTrack ==
  [][\A Y \in ProjectTrackIds :
       (lastOp' = "handleTrackDrop" /\ HandleTrackDrop(Y)) =>
         LET X      == draggedTrackId
             before == SortByOrderIndex(project.tracks)
             after  == SortByOrderIndex(project'.tracks)
         IN IF X = Y
            THEN project' = project
            ELSE InTracks(before, X) =>
                   /\ Len(after) = Len(before)
                   /\ { after[j].id : j \in 1..Len(after) } = ProjectTrackIds
                   /\ \A j \in 1..Len(after) : after[j].orderIndex = j - 1
                   /\ after[IndexOfTrack(before, Y)].id = X
                   /\ SelectSeq(IdsOf(after), LAMBDA id : id # X)
                        = SelectSeq(IdsOf(before), LAMBDA id : id # X)
                   /\ draggedTrackId' = 0
                   /\ dragOverTrackId' = 0]_vars

\* the first of three tracks has been dropped on the last one
C31_Witness ==
  /\ lastOp = "handleTrackDrop"
  /\ IdsOf(SortByOrderIndex(project.tracks)) = << 2, 3, 1 >>
  /\ draggedTrackId = 0

\* C32: a selected track is the track of the project with its id, after any
\* sequence of addNote, deleteNote, updateTrack and deleteTrack.
C32_CurrentTrackIsProjectTrack ==
  currentTrack # NoTrack =>
    currentTrack = FindTrack(project.tracks, currentTrack.id)

\* a name of 1 to 50 letters, digits, spaces, hyphens and underscores
NameAsClaimed(name) ==
  /\ Len(name) \in 1..50
  /\ \A i \in 1..Len(name) :
        name[i] \in Letters \cup Digits \cup { " ", "-", "_" }

\* C33: a save of the name field changes the track's name only to the trimmed
\* text, and only if that is 1 to 50 letters, digits, spaces, hyphens and
\* underscores; otherwise the name stays, the field stays open and a message
\* is set.  Escape closes the field and leaves the name.
C33_OnlyValidNamesSaved ==
  [][/\ (lastOp' = "handleSaveName" /\ isEditing) =>
          /\ TrackName' # TrackName =>
                TrackName' = Trim(editValue) /\ NameAsClaimed(TrackName')
          /\ ~NameAsClaimed(Trim(editValue)) =>
                TrackName' = TrackName /\ isEditing' /\ nameError' # "null"
     /\ lastOp' = "handleCancelEdit" =>
          ~isEditing' /\ TrackName' = TrackName]_vars

\* C34: the samples the analyser produces have the range the scaling of the
\* visualizer that draws them is made for: every sample drawn is in that
\* range, and the two ranges have the same ends.
C34_SampleRangeAsAssumed ==
  calc.op = "draw" =>
    /\ calc.sample >= AssumedRange(calc.visualizer).min
    /\ calc.sample <= AssumedRange(calc.visualizer).max
    /\ ProducedRange = AssumedRange(calc.visualizer)

====
